---------------------------- MODULE Spec2Model ----------------------------
(***************************************************************************)
(* pycollections.list (nbs/list.ipynb): foldl_list and foldr_list.         *)
(*                                                                         *)
(* One behaviour is one call foldl_list(a_vals, start, f) or               *)
(* foldr_list(a_vals, start, f) made by a caller, executed by the Python   *)
(* interpreter one step at a time: the call stack holds one frame per      *)
(* pending activation of foldl_list, foldr_list or the combiner f.  The    *)
(* call ends by returning a value or by an exception leaving the last      *)
(* frame.                                                                  *)
(***************************************************************************)
EXTENDS Integers, Sequences, FiniteSets

VARIABLES
    fold,       \* the function the caller calls: "foldl_list" or "foldr_list"
    a_vals,     \* argument a_vals
    start,      \* argument start
    f,          \* argument f, a combiner [op, sig]
    stack,      \* the call stack, innermost frame last
    exc,        \* the exception travelling up the stack, or "none"
    outcome,    \* "idle", "running", "returned" or "raised"
    result,     \* the value returned to the caller
    calls,      \* every invocation of f so far: <<first argument, second argument>>
    descended   \* the activation of foldr_list on the empty list has run

vars == <<fold, a_vals, start, f, stack, exc, outcome, result, calls, descended>>

----------------------------------------------------------------------------
(* Bounds of the model.                                                    *)

\* Lists of every length up to MaxLen over Elems are inputs.
MaxLen == 4

\* list(range(n)) for every n up to MaxRange is an input.
MaxRange == 6

\* Frames the interpreter allows on the stack below the caller (Python:
\* sys.getrecursionlimit() minus the caller's depth, 1000 by default).
RecursionLimit == 6

Elems == {0, 1, 2}

----------------------------------------------------------------------------
(* Python values.                                                          *)

NoValue == "None"

Ok(v) == [exc |-> "none", val |-> v]

Raise(e) == [exc |-> e, val |-> NoValue]

\* Foo(value): a dataclass; __post_init__ sets even = (value % 2 == 0).
Foo(value) == [cls |-> "Foo", value |-> value, even |-> (value % 2 = 0)]

\* lambda b, a: b + a  and  lambda a, b: a + b
add(b, a) == Ok(b + a)

\* map_left = lambda b, a: b + [a]  and  map_right = lambda a, b: b + [a]
map_append(b, a) == Ok(b \o <<a>>)

\* Mutant of allocate: the two branches are exchanged.
allocate_exchanged(out, next_i) ==
    LET foo == Foo(next_i)
    IN  IF foo.even
        THEN Ok([out EXCEPT !.odd = out.odd \o <<foo>>])
        ELSE Ok([out EXCEPT !.even = out.even \o <<foo>>])

\* allocate(out, next_i): out.update({key: out[key] + [Foo(next_i)]}); return out.
\* The mapping is updated in place and returned; the value returned is what is
\* modelled here.
allocate(out, next_i) ==
    LET foo == Foo(next_i)
    IN  IF foo.even
        THEN Ok([out EXCEPT !.even = out.even \o <<foo>>])
        ELSE Ok([out EXCEPT !.odd = out.odd \o <<foo>>])

\* A combiner of the caller that can raise: lambda b, a: b // a.
floordiv(b, a) ==
    IF a = 0 THEN Raise("ZeroDivisionError") ELSE Ok(b \div a)

\* f(p, q): a combiner of signature "ba" takes (accumulator, element), one of
\* signature "ab" takes (element, accumulator).
Apply(g, p, q) ==
    LET b == IF g.sig = "ba" THEN p ELSE q
        a == IF g.sig = "ba" THEN q ELSE p
    IN  CASE g.op = "add"      -> add(b, a)
          [] g.op = "append"   -> map_append(b, a)
          [] g.op = "allocate" -> allocate(b, a)
          [] g.op = "floordiv" -> floordiv(b, a)

----------------------------------------------------------------------------
(* The caller's inputs.                                                    *)

Range(n) == [k \in 1..n |-> k - 1]

Inputs ==
    UNION {[1..n -> Elems] : n \in 0..MaxLen} \cup {Range(n) : n \in 0..MaxRange}

Ops == {"add", "append", "allocate", "floordiv"}

\* foldl_list takes f: Callable[[B, A], B], foldr_list f: Callable[[A, B], B].
Sig(fn) == IF fn = "foldl_list" THEN "ba" ELSE "ab"

Starts(op) ==
    CASE op = "add"      -> {0, 5}
      [] op = "floordiv" -> {0, 7}
      [] op = "append"   -> {<<>>, <<9>>}
      [] op = "allocate" -> {[even |-> <<>>, odd |-> <<>>],
                             [even |-> <<>>, odd |-> <<Foo(7)>>]}

----------------------------------------------------------------------------
(* The interpreter.                                                        *)

Top == stack[Len(stack)]

Pop == SubSeq(stack, 1, Len(stack) - 1)

Running == outcome = "running" /\ exc = "none" /\ stack # <<>>

\* Mutant of IsEmpty: a one-element list is taken for the empty list.
IsEmptyOrSingle(xs) == Len(xs) <= 1

\* len(a_vals) == 0
IsEmpty(xs) == Len(xs) = 0

\* Mutant of Unpack: the last element is taken instead of the first.
UnpackLast(xs) ==
    [next_a |-> xs[Len(xs)], remaining_a_vals |-> SubSeq(xs, 1, Len(xs) - 1)]

\* next_a, *remaining_a_vals = a_vals
Unpack(xs) == [next_a |-> Head(xs), remaining_a_vals |-> Tail(xs)]

\* Mutant of NextOf: the list is walked from its end.
NextOfBackward(xs, i) == xs[Len(xs) - i]

\* for next_a in a_vals: the element the iterator yields after i elements
NextOf(xs, i) == xs[i + 1]

\* A frame of foldl_list after  out: B = start.
FoldlFrame(xs) == [fn |-> "foldl_list", a_vals |-> xs, i |-> 0, out |-> start]

\* A frame of foldr_list on entry.
FoldrFrame(xs) == [fn |-> "foldr_list", a_vals |-> xs, pc |-> "entry"]

\* A frame of the combiner.
FFrame(p, q) == [fn |-> "f", p |-> p, q |-> q]

\* Mutant of PushOver: the stack has no limit.
PushOverUnchecked(caller, callee) ==
    /\ stack' = Append(Append(Pop, caller), callee)
    /\ exc' = exc

\* A call: the callee's frame is pushed over the caller's (whose frame becomes
\* `caller`), unless the stack is full.
PushOver(caller, callee) ==
    IF Len(stack) < RecursionLimit
    THEN /\ stack' = Append(Append(Pop, caller), callee)
         /\ exc' = exc
    ELSE /\ stack' = Append(Pop, caller)
         /\ exc' = "RecursionError"

\* Mutant of Receive: foldl_list calls f and drops its value.
ReceiveDropped(frame, v) ==
    CASE frame.fn = "foldl_list" -> frame
      [] frame.fn = "foldr_list" /\ frame.pc = "await" ->
            [fn |-> "foldr_list", a_vals |-> frame.a_vals, pc |-> "have",
             next_a |-> frame.next_a, ret |-> v]
      [] frame.fn = "foldr_list" /\ frame.pc = "in_f" ->
            [fn |-> "foldr_list", a_vals |-> frame.a_vals, pc |-> "done",
             next_a |-> frame.next_a, ret |-> v]

\* What a frame does with the value its callee returns.
Receive(frame, v) ==
    CASE frame.fn = "foldl_list" -> [frame EXCEPT !.out = v]
      [] frame.fn = "foldr_list" /\ frame.pc = "await" ->
            [fn |-> "foldr_list", a_vals |-> frame.a_vals, pc |-> "have",
             next_a |-> frame.next_a, ret |-> v]
      [] frame.fn = "foldr_list" /\ frame.pc = "in_f" ->
            [fn |-> "foldr_list", a_vals |-> frame.a_vals, pc |-> "done",
             next_a |-> frame.next_a, ret |-> v]

\* return v: the top frame goes, and v reaches the frame below or the caller.
Return(v) ==
    /\ IF Len(stack) = 1
       THEN /\ stack' = <<>>
            /\ outcome' = "returned"
            /\ result' = v
       ELSE /\ stack' = Append(SubSeq(stack, 1, Len(stack) - 2),
                               Receive(stack[Len(stack) - 1], v))
            /\ UNCHANGED <<outcome, result>>
    /\ UNCHANGED exc

Init ==
    /\ fold \in {"foldl_list", "foldr_list"}
    /\ a_vals \in Inputs
    /\ \E op \in Ops :
          /\ f = [op |-> op, sig |-> Sig(fold)]
          /\ start \in Starts(op)
    /\ stack = <<>>
    /\ exc = "none"
    /\ outcome = "idle"
    /\ result = NoValue
    /\ calls = <<>>
    /\ descended = FALSE

\* The caller calls foldl_list(a_vals, start, f) or foldr_list(a_vals, start, f).
CallFold ==
    /\ outcome = "idle"
    /\ outcome' = "running"
    /\ stack' = <<IF fold = "foldl_list" THEN FoldlFrame(a_vals) ELSE FoldrFrame(a_vals)>>
    /\ UNCHANGED <<fold, a_vals, start, f, exc, result, calls, descended>>

\* Mutant of FoldlIterate: foldl_list written recursively, one activation per
\* element.
FoldlRecurses ==
    /\ Running
    /\ Top.fn = "foldl_list"
    /\ Top.i < Len(Top.a_vals)
    /\ stack' = Append(stack, [Top EXCEPT !.i = Top.i + 1])
    /\ UNCHANGED <<fold, a_vals, start, f, exc, outcome, result, calls, descended>>

\* foldl_list:  for next_a in a_vals: out = f(out, next_a)   (f is entered)
FoldlIterate ==
    /\ Running
    /\ Top.fn = "foldl_list"
    /\ Top.i < Len(Top.a_vals)
    /\ LET next_a == NextOf(Top.a_vals, Top.i)
       IN  /\ PushOver([Top EXCEPT !.i = Top.i + 1], FFrame(Top.out, next_a))
           /\ calls' = IF Len(stack) < RecursionLimit
                       THEN Append(calls, <<Top.out, next_a>>) ELSE calls
    /\ UNCHANGED <<fold, a_vals, start, f, outcome, result, descended>>

\* foldl_list:  return out
FoldlReturn ==
    /\ Running
    /\ Top.fn = "foldl_list"
    /\ Top.i = Len(Top.a_vals)
    /\ Return(Top.out)
    /\ UNCHANGED <<fold, a_vals, start, f, calls, descended>>

\* foldr_list:  if len(a_vals) == 0: return start
FoldrBase ==
    /\ Running
    /\ Top.fn = "foldr_list"
    /\ Top.pc = "entry"
    /\ IsEmpty(Top.a_vals)
    /\ Return(start)
    /\ descended' = TRUE
    /\ UNCHANGED <<fold, a_vals, start, f, calls>>

\* foldr_list:  else: next_a, *remaining_a_vals = a_vals; the recursive call
\* foldr_list(remaining_a_vals, start, f) is entered.
FoldrRecurse ==
    /\ Running
    /\ Top.fn = "foldr_list"
    /\ Top.pc = "entry"
    /\ ~IsEmpty(Top.a_vals)
    /\ LET u == Unpack(Top.a_vals)
       IN  PushOver([fn |-> "foldr_list", a_vals |-> Top.a_vals, pc |-> "await",
                     next_a |-> u.next_a],
                    FoldrFrame(u.remaining_a_vals))
    /\ UNCHANGED <<fold, a_vals, start, f, outcome, result, calls, descended>>

\* foldr_list:  f(next_a, <the recursive call's value>) is entered.
FoldrCombine ==
    /\ Running
    /\ Top.fn = "foldr_list"
    /\ Top.pc = "have"
    /\ PushOver([Top EXCEPT !.pc = "in_f"], FFrame(Top.next_a, Top.ret))
    /\ calls' = IF Len(stack) < RecursionLimit
                THEN Append(calls, <<Top.next_a, Top.ret>>) ELSE calls
    /\ UNCHANGED <<fold, a_vals, start, f, outcome, result, descended>>

\* foldr_list:  return f(...)
FoldrReturn ==
    /\ Running
    /\ Top.fn = "foldr_list"
    /\ Top.pc = "done"
    /\ Return(Top.ret)
    /\ UNCHANGED <<fold, a_vals, start, f, calls, descended>>

\* The combiner returns a value to the fold that called it.
CombineReturns ==
    /\ Running
    /\ Top.fn = "f"
    /\ Apply(f, Top.p, Top.q).exc = "none"
    /\ Return(Apply(f, Top.p, Top.q).val)
    /\ UNCHANGED <<fold, a_vals, start, f, calls, descended>>

\* Mutant of CombineRaises: the fold catches the exception and goes on with
\* the accumulator it had.
CombineSwallowed ==
    /\ Running
    /\ Top.fn = "f"
    /\ Apply(f, Top.p, Top.q).exc # "none"
    /\ Return(IF f.sig = "ba" THEN Top.p ELSE Top.q)
    /\ UNCHANGED <<fold, a_vals, start, f, calls, descended>>

\* The combiner raises: its frame goes and the exception reaches the fold.
CombineRaises ==
    /\ Running
    /\ Top.fn = "f"
    /\ Apply(f, Top.p, Top.q).exc # "none"
    /\ exc' = Apply(f, Top.p, Top.q).exc
    /\ stack' = Pop
    /\ UNCHANGED <<fold, a_vals, start, f, outcome, result, calls, descended>>

\* Neither foldl_list nor foldr_list has a try statement: an exception leaves
\* each frame it reaches, and after the last frame it reaches the caller.
Unwind ==
    /\ outcome = "running"
    /\ exc # "none"
    /\ stack # <<>>
    /\ stack' = Pop
    /\ outcome' = IF Len(stack) = 1 THEN "raised" ELSE outcome
    /\ UNCHANGED <<fold, a_vals, start, f, exc, result, calls, descended>>

Next ==
    \/ CallFold
    \/ FoldlIterate
    \/ FoldlReturn
    \/ FoldrBase
    \/ FoldrRecurse
    \/ FoldrCombine
    \/ FoldrReturn
    \/ CombineReturns
    \/ CombineRaises
    \/ Unwind

Spec == Init /\ [][Next]_vars

----------------------------------------------------------------------------
(* Definitions the properties are stated with.                             *)

Finished == outcome \in {"returned", "raised"}

Front(s) == SubSeq(s, 1, Len(s) - 1)

Reverse(s) == [k \in 1..Len(s) |-> s[Len(s) + 1 - k]]

\* swapped_combine(a, b) = combine(b, a)
Swap(g) == [g EXCEPT !.sig = IF g.sig = "ba" THEN "ab" ELSE "ba"]

\* The left-nested value g(...g(g(s, x0), x1)..., xn-1), or the exception of
\* the first application that raises.
RECURSIVE LeftNested(_, _, _)
LeftNested(xs, s, g) ==
    IF xs = <<>> THEN Ok(s)
    ELSE LET inner == LeftNested(Front(xs), s, g)
         IN  IF inner.exc # "none" THEN inner
             ELSE Apply(g, inner.val, xs[Len(xs)])

\* The recursive definition: RightFold([], s, g) = s and
\* RightFold([head] + tail, s, g) = g(head, RightFold(tail, s, g)).
RECURSIVE RightFold(_, _, _)
RightFold(xs, s, g) ==
    IF xs = <<>> THEN Ok(s)
    ELSE LET inner == RightFold(Tail(xs), s, g)
         IN  IF inner.exc # "none" THEN inner
             ELSE Apply(g, Head(xs), inner.val)

RECURSIVE Sum(_)
Sum(xs) == IF xs = <<>> THEN 0 ELSE xs[1] + Sum(Tail(xs))

FoldlPending == Cardinality({k \in 1..Len(stack) : stack[k].fn = "foldl_list"})

FoldrPending == Cardinality({k \in 1..Len(stack) : stack[k].fn = "foldr_list"})

CombinePending == Cardinality({k \in 1..Len(stack) : stack[k].fn = "f"})

InF == stack # <<>> /\ Top.fn = "f"

----------------------------------------------------------------------------
(* C1: foldl_list(xs, start, f) returns the left-nested value              *)
(* f(...f(f(start, x0), x1)..., xn-1).  The accumulator begins as start,   *)
(* the k-th invocation of f is f(accumulator after k-1 elements, x(k-1))   *)
(* with the accumulator first, in forward order, its value replaces the    *)
(* accumulator, and for the empty list the result is start.                *)
C1_FoldlLeftNested ==
    fold = "foldl_list" =>
        /\ \A k \in 1..Len(calls) :
              /\ LeftNested(SubSeq(a_vals, 1, k - 1), start, f).exc = "none"
              /\ calls[k] = <<LeftNested(SubSeq(a_vals, 1, k - 1), start, f).val,
                              a_vals[k]>>
        /\ (stack # <<>> /\ exc = "none") =>
              /\ stack[1].i = Len(calls)
              /\ LET done == IF InF THEN Len(calls) - 1 ELSE Len(calls)
                 IN  /\ LeftNested(SubSeq(a_vals, 1, done), start, f).exc = "none"
                     /\ stack[1].out = LeftNested(SubSeq(a_vals, 1, done), start, f).val
        /\ outcome = "returned" =>
              /\ Len(calls) = Len(a_vals)
              /\ LeftNested(a_vals, start, f).exc = "none"
              /\ result = LeftNested(a_vals, start, f).val
              /\ (a_vals = <<>> => result = start)

C1_Witness ==
    /\ fold = "foldl_list"
    /\ outcome = "returned"
    /\ f.op = "floordiv"
    /\ start = 7
    /\ a_vals = <<2, 1, 2>>
    /\ result = 1

(* C2: the value foldr_list returns is that of the recursive definition:   *)
(* start for the empty list, f(head, foldr_list(tail, start, f)) otherwise,*)
(* the element first and the accumulator second; every activation returns  *)
(* the recursive definition's value for its own list.                      *)
C2_FoldrRecursiveDefinition ==
    fold = "foldr_list" =>
        /\ \A k \in 1..Len(stack) :
              /\ (stack[k].fn = "foldr_list" /\ stack[k].pc \in {"have", "in_f"}) =>
                    /\ RightFold(Tail(stack[k].a_vals), start, f).exc = "none"
                    /\ stack[k].ret = RightFold(Tail(stack[k].a_vals), start, f).val
                    /\ stack[k].next_a = Head(stack[k].a_vals)
              /\ (stack[k].fn = "foldr_list" /\ stack[k].pc = "done") =>
                    /\ RightFold(stack[k].a_vals, start, f).exc = "none"
                    /\ stack[k].ret = RightFold(stack[k].a_vals, start, f).val
        /\ outcome = "returned" =>
              /\ RightFold(a_vals, start, f).exc = "none"
              /\ result = RightFold(a_vals, start, f).val
              /\ (a_vals = <<>> => result = start)
              /\ (Len(a_vals) = 1 => result = Apply(f, a_vals[1], start).val)

C2_Witness ==
    /\ fold = "foldr_list"
    /\ outcome = "returned"
    /\ f.op = "floordiv"
    /\ start = 7
    /\ a_vals = <<2, 1>>
    /\ result = 3

(* C3: with integer addition (commutative and associative) and start 0,    *)
(* foldl_list(xs, 0, combine) and foldr_list(xs, 0, swapped_combine) return *)
(* the same value, the sum of the elements: 10 for [0, 1, 2, 3, 4].        *)
C3_AdditionFoldsAgree ==
    (outcome = "returned" /\ f.op = "add" /\ start = 0) =>
        /\ result = Sum(a_vals)
        /\ fold = "foldl_list" => result = RightFold(a_vals, 0, Swap(f)).val
        /\ fold = "foldr_list" => result = LeftNested(a_vals, 0, Swap(f)).val
        /\ a_vals = Range(5) => result = 10

C3_Witness ==
    /\ outcome = "returned"
    /\ fold = "foldr_list"
    /\ f.op = "add"
    /\ start = 0
    /\ a_vals = Range(5)
    /\ result = 10

(* C4: with map_left(b, a) = b ++ [a] and map_right(a, b) = b ++ [a],      *)
(* foldl_list(xs, [], map_left) is xs and foldr_list(xs, [], map_right) is *)
(* xs reversed; so for an xs that differs from its reversal neither fold   *)
(* returns what the other does.                                            *)
C4_OrderSensitivity ==
    (outcome = "returned" /\ f.op = "append" /\ start = <<>>) =>
        /\ fold = "foldl_list" => result = a_vals
        /\ fold = "foldr_list" => result = Reverse(a_vals)
        /\ a_vals # Reverse(a_vals) =>
              /\ fold = "foldl_list" => result # RightFold(a_vals, <<>>, Swap(f)).val
              /\ fold = "foldr_list" => result # LeftNested(a_vals, <<>>, Swap(f)).val

C4_Witness ==
    /\ outcome = "returned"
    /\ fold = "foldr_list"
    /\ f.op = "append"
    /\ start = <<>>
    /\ a_vals = Range(5)
    /\ result = <<4, 3, 2, 1, 0>>

(* C5: when an invocation of f raises, foldl_list and foldr_list end with  *)
(* that same exception: the failing invocation is the last one ever made   *)
(* (no retry, no invocation for a remaining element), the exception that   *)
(* travels up and reaches the caller is the one f raised (not wrapped, not *)
(* suppressed), and no value is returned.                                  *)
C5_CombineExceptionPropagates ==
    \A k \in 1..Len(calls) :
        LET r == Apply(f, calls[k][1], calls[k][2])
        IN  r.exc # "none" =>
              /\ k = Len(calls)
              /\ \/ InF
                 \/ /\ exc = r.exc
                    /\ CombinePending = 0
                    /\ outcome # "returned"
                    /\ result = NoValue
                    /\ (stack = <<>> => outcome = "raised")

C5_Witness ==
    /\ fold = "foldr_list"
    /\ outcome = "raised"
    /\ exc = "ZeroDivisionError"
    /\ f.op = "floordiv"
    /\ a_vals = <<1, 0, 2>>
    /\ calls = <<<<2, 7>>, <<0, 3>>>>

(* C6 as claimed: the pending activations of foldr_list stay within a      *)
(* limit that does not grow with the length of the list, so no call of     *)
(* foldr_list ends by failing on stack depth.                              *)
C6_Original ==
    fold = "foldr_list" => exc # "RecursionError"

(* C6 as amended: foldr_list holds one pending activation per element      *)
(* consumed plus one, Len(a_vals) + 1 of them when it reaches the empty    *)
(* tail; it reaches the empty tail only if that many frames fit under the  *)
(* interpreter's recursion limit, and otherwise ends with RecursionError   *)
(* before any invocation of f.                                             *)
C6_FoldrDepthGrowsWithLength ==
    fold = "foldr_list" =>
        /\ FoldrPending <= Len(a_vals) + 1
        /\ (stack # <<>> /\ exc = "none" /\ Top.fn = "foldr_list" /\ Top.pc = "entry") =>
              FoldrPending = (Len(a_vals) - Len(Top.a_vals)) + 1
        /\ descended => Len(a_vals) + 1 <= RecursionLimit
        /\ exc = "RecursionError" =>
              (Len(a_vals) + 1 > RecursionLimit /\ calls = <<>> /\ outcome # "returned")
        /\ Finished =>
              ((outcome = "raised" /\ exc = "RecursionError")
                  <=> Len(a_vals) + 1 > RecursionLimit)

C6_Witness ==
    /\ fold = "foldr_list"
    /\ outcome = "raised"
    /\ exc = "RecursionError"
    /\ Len(a_vals) = RecursionLimit
    /\ calls = <<>>

(* C7: foldl_list is iterative: at every moment of a call there is at most *)
(* one pending activation of foldl_list and at most one invocation of f in *)
(* progress, whatever the length of the list.                              *)
C7_FoldlConstantDepth ==
    fold = "foldl_list" =>
        /\ FoldlPending <= 1
        /\ CombinePending <= 1
        /\ FoldrPending = 0
        /\ Len(stack) <= 2
        /\ exc # "RecursionError"

C7_Witness ==
    /\ fold = "foldl_list"
    /\ InF
    /\ Len(a_vals) = MaxRange
    /\ Len(calls) = MaxRange
    /\ Len(stack) = 2

\* The even, and the odd, elements of xs in their order in xs.
IsEven(n) == n % 2 = 0

IsOdd(n) == n % 2 = 1

\* The plain integers of s as list items.
Ints(s) == [k \in 1..Len(s) |-> [cls |-> "int", value |-> s[k]]]

\* The items of s wrapped: Foo(s[k]) for each.
Foos(s) == [k \in 1..Len(s) |-> Foo(s[k])]

AllocateCase ==
    /\ fold = "foldl_list"
    /\ f.op = "allocate"
    /\ start = [even |-> <<>>, odd |-> <<>>]
    /\ outcome = "returned"

(* C8 as claimed: foldl_list(xs, {even: [], odd: []}, allocate) returns a  *)
(* mapping whose 'even' list holds the even elements of xs themselves and  *)
(* whose 'odd' list the odd ones, in input order ([0, 2, 4] and [1, 3]).   *)
C8_Original ==
    AllocateCase =>
        /\ result.even = Ints(SelectSeq(a_vals, IsEven))
        /\ result.odd = Ints(SelectSeq(a_vals, IsOdd))

(* C8 as amended: the mapping's 'even' list holds one Foo object per even  *)
(* element of xs, Foo(value = element, even = True), and its 'odd' list    *)
(* one Foo(value = element, even = False) per odd element, each list in    *)
(* the input order of xs; the values are [0, 2, 4] and [1, 3] for          *)
(* [0, 1, 2, 3, 4].                                                        *)
C8_AllocateByParity ==
    AllocateCase =>
        /\ DOMAIN result = {"even", "odd"}
        /\ result.even = Foos(SelectSeq(a_vals, IsEven))
        /\ result.odd = Foos(SelectSeq(a_vals, IsOdd))
        /\ \A k \in 1..Len(result.even) : result.even[k].even = TRUE
        /\ \A k \in 1..Len(result.odd) : result.odd[k].even = FALSE
        /\ a_vals = Range(5) =>
              /\ [k \in 1..Len(result.even) |-> result.even[k].value] = <<0, 2, 4>>
              /\ [k \in 1..Len(result.odd) |-> result.odd[k].value] = <<1, 3>>

C8_Witness ==
    /\ AllocateCase
    /\ a_vals = Range(5)
    /\ result = [even |-> <<Foo(0), Foo(2), Foo(4)>>, odd |-> <<Foo(1), Foo(3)>>]

(* C9: in foldr_list no invocation of f happens before the descent has     *)
(* reached the empty tail; the k-th invocation then takes the k-th element *)
(* from the end, the first one with the last element and start, and a call *)
(* that returns has made exactly Len(xs) invocations, the last one with    *)
(* the first element.                                                      *)
C9_FoldrEvaluationOrder ==
    fold = "foldr_list" =>
        /\ calls # <<>> => descended
        /\ ~descended => (calls = <<>> /\ CombinePending = 0)
        /\ Len(calls) <= Len(a_vals)
        /\ \A k \in 1..Len(calls) : calls[k][1] = a_vals[Len(a_vals) + 1 - k]
        /\ calls # <<>> => calls[1] = <<a_vals[Len(a_vals)], start>>
        /\ outcome = "returned" =>
              /\ Len(calls) = Len(a_vals)
              /\ a_vals # <<>> => calls[Len(calls)][1] = a_vals[1]

C9_Witness ==
    /\ fold = "foldr_list"
    /\ outcome = "returned"
    /\ f.op = "append"
    /\ start = <<>>
    /\ a_vals = <<2, 0, 1>>
    /\ calls = << <<1, <<>>>>, <<0, <<1>>>>, <<2, <<1, 0>>>> >>

\* The invocations an iterative left fold of xs from s with g makes, as
\* (element, accumulator) pairs: the k-th takes xs[k] and the accumulator
\* after k - 1 elements, up to and including the first that raises.
RECURSIVE LeftPairs(_, _, _)
LeftPairs(xs, s, g) ==
    IF xs = <<>> THEN <<>>
    ELSE LET inner == LeftNested(Front(xs), s, g)
         IN  IF inner.exc # "none" THEN LeftPairs(Front(xs), s, g)
             ELSE Append(LeftPairs(Front(xs), s, g), <<xs[Len(xs)], inner.val>>)

\* The invocations made so far, as (element, accumulator) pairs.
PairsMade ==
    [k \in 1..Len(calls) |->
        IF f.sig = "ab" THEN calls[k] ELSE <<calls[k][2], calls[k][1]>>]

\* The call has ended as the left fold of xs from start with g ends.
EndsAsLeftFold(xs, g) ==
    /\ outcome = "returned" =>
          /\ LeftNested(xs, start, g).exc = "none"
          /\ result = LeftNested(xs, start, g).val
          /\ PairsMade = LeftPairs(xs, start, g)
    /\ (outcome = "raised" /\ exc # "RecursionError") =>
          /\ LeftNested(xs, start, g).exc = exc
          /\ PairsMade = LeftPairs(xs, start, g)

(* C10: foldr_list(xs, start, f) ends as the iterative left fold of        *)
(* reverse(xs) from start with g(b, a) = f(a, b) ends, which is how        *)
(* foldl_list(reverse(xs), start, g) ends: the same value (or the same     *)
(* exception of the combiner) after the same (element, accumulator) pairs  *)
(* in the same order.                                                      *)
C10_FoldrIsFoldlOfReverse ==
    /\ fold = "foldr_list" => EndsAsLeftFold(Reverse(a_vals), Swap(f))
    /\ fold = "foldl_list" => EndsAsLeftFold(a_vals, f)

C10_Witness ==
    /\ fold = "foldr_list"
    /\ outcome = "returned"
    /\ f.op = "floordiv"
    /\ start = 7
    /\ a_vals = <<1, 1, 2>>
    /\ result = 3
    /\ PairsMade = << <<2, 7>>, <<1, 3>>, <<1, 3>> >>

============================================================================
